---- MODULE Spec2Model ----
(***************************************************************************)
(* Model of the two traversal primitives of the scene-graph crate:         *)
(*   src/src/iter_with_index.rs      SceneGraphIterWithIndex               *)
(*   src/src/iter_mut_predicate.rs   SceneGraphIterMutPredicate            *)
(* The container (SceneGraph), attach and iter_from_node_with_index live   *)
(* in the crate root, which is not part of the sources at hand; they are   *)
(* modelled from the specification (sections 3, 4.1, 6 and 9).             *)
(***************************************************************************)
EXTENDS Integers, Sequences, FiniteSets, TLC

\* Number of arena slots (branch nodes) a tree may hold.
MaxNodes == 3

Slots == 1..MaxNodes

\* Option<Index>::None for a slot.
NoSlot == 0

\* NodeIndex::Root and NodeIndex::Branch(idx)
Root == [tag |-> "Root", idx |-> NoSlot]

Branch(s) == [tag |-> "Branch", idx |-> s]

NodeIds == {Root} \cup {Branch(s) : s \in Slots}

\* Option<Children>: None, or Some(Children { first, last })
NoChildren == [some |-> FALSE, first |-> NoSlot, last |-> NoSlot]

SomeChildren(f, l) == [some |-> TRUE, first |-> f, last |-> l]

\* T: the value type of the tests (ConditionalNode { name, condition }).
\* The name of the root is 0, the name of a branch node is chosen by attach.
Value(n, c) == [name |-> n, cond |-> c]

\* A slot of the arena that does not resolve (arena.get(idx) == None).
Vacant == [occupied |-> FALSE, value |-> Value(0, FALSE), children |-> NoChildren, next_sibling |-> NoSlot]

\* Node<T> { value, children, next_sibling } stored in a slot.
Node(v, ch, ns) == [occupied |-> TRUE, value |-> v, children |-> ch, next_sibling |-> ns]

\* The predicates fn(&T) -> bool used by the tests: |node| true and |node| node.condition
Predicates == {"true", "condition"}

Pred(p, v) == IF p = "true" THEN TRUE ELSE v.cond

VARIABLES
  root,           \* SceneGraph.root : T
  root_children,  \* SceneGraph.root_children : Option<Children>
  arena,          \* SceneGraph.arena : Arena<Node<T>>
  mode,           \* "idle" (no iterator borrows the graph), "read", "mut", "panic"
  start,          \* the start node the live iterator was built from
  predicate,      \* SceneGraphIterMutPredicate.predicate
  stacks,         \* the iterator's stacks : Vec<StackState>, top of stack last
  out,            \* history: the items returned so far by the live iterator
  ret,            \* result of the most recent call: "NoCall", "Ok", "Some", "None", "NodeNotFound"
  live,           \* the returned (&mut T, &mut T) pairs the caller still holds
  rejected,       \* history: candidates the predicate rejected in this traversal
  written,        \* history: the caller wrote through a returned reference
  panic,          \* which panicking call failed, "" if none
  stats,          \* history: frames popped and predicate calls of this traversal
  other,          \* a second read iterator, alive next to the first one
  prev            \* history: what the last finished mutable traversal returned

vars == <<root, root_children, arena, mode, start, predicate, stacks, out, ret, live, rejected, written, panic,
          stats, other, prev>>

tree == <<root_children, arena>>

\* Nothing popped, nothing evaluated yet.
NoStats == [popped |-> {}, pops |-> 0, rootEvals |-> 0, evals |-> 0, skipped |-> 0]

\* No second read iterator.
NoOther == [active |-> FALSE, start |-> Root, stacks |-> <<>>, out |-> <<>>, ret |-> "NoCall"]

\* No finished traversal on record.
NoPrev == [kind |-> "none", predicate |-> "true", out |-> <<>>]

----------------------------------------------------------------------------
(* The generational arena, as consumed by the iterators (spec section 6).  *)

\* arena.get(idx).is_some()
Resolves(s) == s \in Slots /\ arena[s].occupied

\* Vec::push and Vec::pop on the stack of frames
Push(stk, f) == Append(stk, f)

Top(stk) == stk[Len(stk)]

Pop(stk) == SubSeq(stk, 1, Len(stk) - 1)

----------------------------------------------------------------------------
(* Tree shape, read off the first-child / next-sibling links.               *)

\* The sibling chain that starts at slot s, following next_sibling.
RECURSIVE Chain(_, _)
Chain(s, fuel) ==
  IF s = NoSlot \/ fuel = 0 \/ ~Resolves(s) THEN <<>>
  ELSE <<s>> \o Chain(arena[s].next_sibling, fuel - 1)

ChildrenOf(id) ==
  IF id.tag = "Root" THEN root_children
  ELSE IF Resolves(id.idx) THEN arena[id.idx].children ELSE NoChildren

\* The children of a node, in sibling-chain order.
Kids(id) == LET ch == ChildrenOf(id) IN IF ch.some THEN Chain(ch.first, MaxNodes + 1) ELSE <<>>

Range(seq) == {seq[i] : i \in 1..Len(seq)}

Occupied == {s \in Slots : arena[s].occupied}

\* The node whose child chain contains slot x.
ParentOf(x) == CHOOSE p \in NodeIds : x \in Range(Kids(p))

\* a is a proper ancestor of slot x
RECURSIVE IsAncestor(_, _, _)
IsAncestor(a, x, fuel) ==
  /\ fuel > 0
  /\ \E p \in NodeIds : /\ x \in Range(Kids(p))
                        /\ \/ p = a
                           \/ p.tag = "Branch" /\ IsAncestor(a, p.idx, fuel - 1)

Descendants(id) == {x \in Occupied : IsAncestor(id, x, MaxNodes + 1)}

\* Depth-first preorder of the slots below a list of siblings.
RECURSIVE PreorderOf(_, _)
PreorderOf(sibs, fuel) ==
  IF sibs = <<>> \/ fuel = 0 THEN <<>>
  ELSE <<Head(sibs)>> \o PreorderOf(Kids(Branch(Head(sibs))), fuel - 1) \o PreorderOf(Tail(sibs), fuel)

Preorder(id) == PreorderOf(Kids(id), MaxNodes + 1)

----------------------------------------------------------------------------
(* The container and the mutation API that builds the tree.                 *)

\* SceneGraph::new(root)
Init ==
  /\ root \in {Value(0, c) : c \in BOOLEAN}
  /\ root_children = NoChildren
  /\ arena = [s \in Slots |-> Vacant]
  /\ mode = "idle"
  /\ start = Root
  /\ predicate = "true"
  /\ stacks = <<>>
  /\ out = <<>>
  /\ ret = "NoCall"
  /\ live = <<>>
  /\ rejected = {}
  /\ written = FALSE
  /\ panic = ""
  /\ stats = NoStats
  /\ other = NoOther
  /\ prev = NoPrev

\* The arena after the new node s was appended to the child list ch of its parent.
Appended(ch, s, v) ==
  IF ch.some
  THEN [arena EXCEPT ![s] = Node(v, NoChildren, NoSlot), ![ch.last].next_sibling = s]
  ELSE [arena EXCEPT ![s] = Node(v, NoChildren, NoSlot)]

NewRange(ch, s) == IF ch.some THEN SomeChildren(ch.first, s) ELSE SomeChildren(s, s)

\* arena.insert(node): the slot the arena hands out. No slot is ever freed
\* here, so the arena fills its slots in order.
InsertSlot == CHOOSE s \in Slots : ~arena[s].occupied /\ \A t \in Slots : t < s => arena[t].occupied

\* SceneGraph::attach(parent, value): the new node goes to the tail of the
\* parent's child list.
Attach(parent, c) ==
  /\ mode = "idle"
  /\ \E s \in Slots : ~arena[s].occupied
  /\ parent.tag = "Branch" => arena[parent.idx].occupied
  /\ LET s == InsertSlot
         ch == ChildrenOf(parent)
         a1 == Appended(ch, s, Value(s, c))
     IN IF parent.tag = "Root"
        THEN /\ root_children' = NewRange(ch, s)
             /\ arena' = a1
        ELSE /\ root_children' = root_children
             /\ arena' = [a1 EXCEPT ![parent.idx].children = NewRange(ch, s)]
  /\ ret' = "NoCall"
  /\ prev' = NoPrev
  /\ UNCHANGED <<root, mode, start, predicate, stacks, out, live, rejected, written, panic, stats, other>>

----------------------------------------------------------------------------
(* SceneGraphIterWithIndex: the read iterator.                              *)

\* StackState::new(index, first_child): the frame holds the identifier and a
\* shared reference to the node, modelled as the slot it points into.
StackState(index, node) == [current_child_index |-> index, current_child |-> node]

\* `&sg.arena[idx]` panics when the slot does not resolve.
IndexPanics(idx) == ~Resolves(idx)

\* IterWithIndexNew starting at the tail of the child list instead of its head.
IterWithIndexNew_FromLast(children) ==
  IF children.some
  THEN <<StackState(Branch(children.last), children.last)>>
  ELSE <<>>

\* SceneGraphIterWithIndex::new: the stack it builds from the start node's children.
IterWithIndexNew(children) ==
  IF children.some
  THEN <<StackState(Branch(children.first), children.first)>>
  ELSE <<>>

IterWithIndexNewPanics(children) == children.some /\ IndexPanics(children.first)

\* IterFromNodeWithIndex without the lookup of the start node: an identifier
\* that does not resolve is treated as a node without children.
IterFromNodeWithIndex_NoLookup(node_index) ==
  /\ mode = "idle"
  /\ start' = node_index
  /\ mode' = "read"
  /\ stacks' = IterWithIndexNew(ChildrenOf(node_index))
  /\ ret' = "Ok"
  /\ UNCHANGED <<root, root_children, arena, predicate, out, live, rejected, written, panic, stats, other, prev>>

\* SceneGraph::iter_from_node_with_index(node_index)
IterFromNodeWithIndex(node_index) ==
  /\ mode = "idle"
  /\ start' = node_index
  /\ IF node_index.tag = "Branch" /\ ~Resolves(node_index.idx)
     THEN /\ ret' = "NodeNotFound"
          /\ UNCHANGED <<mode, stacks, panic>>
     ELSE IF IterWithIndexNewPanics(ChildrenOf(node_index))
     THEN /\ mode' = "panic"
          /\ panic' = "index"
          /\ UNCHANGED <<stacks, ret>>
     ELSE /\ mode' = "read"
          /\ stacks' = IterWithIndexNew(ChildrenOf(node_index))
          /\ ret' = "Ok"
          /\ UNCHANGED panic
  /\ UNCHANGED <<root, root_children, arena, predicate, out, live, rejected, written, stats, other, prev>>

\* The sibling push of next (lines 29-32).
PushSibling(stk, node) ==
  IF node.next_sibling # NoSlot
  THEN Push(stk, StackState(Branch(node.next_sibling), node.next_sibling))
  ELSE stk

\* The first-child push of next (lines 34-37).
PushFirstChild(stk, node) ==
  IF node.children.some
  THEN Push(stk, StackState(Branch(node.children.first), node.children.first))
  ELSE stk

\* IterWithIndexNext pushing the first child before the sibling, so that the
\* sibling is popped first.
IterWithIndexNext_ChildBeforeSibling(stk) ==
  IF stk = <<>>
  THEN [some |-> FALSE, stacks |-> stk, item |-> <<>>, panic |-> ""]
  ELSE LET stack_frame == Top(stk)
           node == arena[stack_frame.current_child]
       IN [some |-> TRUE,
           stacks |-> PushSibling(PushFirstChild(Pop(stk), node), node),
           item |-> [idx |-> stack_frame.current_child_index, value |-> node.value],
           panic |-> ""]

\* IterWithIndexNext refilling the stack from the root's first child when it
\* reports the end of the sequence.
IterWithIndexNext_Restarts(stk) ==
  IF stk = <<>>
  THEN [some |-> FALSE,
        stacks |-> IF root_children.some
                   THEN <<StackState(Root, root_children.first)>>
                   ELSE stk,
        item |-> <<>>, panic |-> ""]
  ELSE LET stack_frame == Top(stk)
           node == arena[stack_frame.current_child]
       IN [some |-> TRUE,
           stacks |-> PushFirstChild(PushSibling(Pop(stk), node), node),
           item |-> [idx |-> stack_frame.current_child_index, value |-> node.value],
           panic |-> ""]

\* <SceneGraphIterWithIndex as Iterator>::next on the stack stk.
IterWithIndexNext(stk) ==
  IF stk = <<>>
  THEN [some |-> FALSE, stacks |-> stk, item |-> <<>>, panic |-> ""]
  ELSE LET stack_frame == Top(stk)
           node == arena[stack_frame.current_child]
       IN IF \/ node.next_sibling # NoSlot /\ IndexPanics(node.next_sibling)
             \/ node.children.some /\ IndexPanics(node.children.first)
          THEN [some |-> FALSE, stacks |-> Pop(stk), item |-> <<>>, panic |-> "index"]
          ELSE [some |-> TRUE,
                stacks |-> PushFirstChild(PushSibling(Pop(stk), node), node),
                item |-> [idx |-> stack_frame.current_child_index, value |-> node.value],
                panic |-> ""]

\* The pop of next (line 26), as the history records it.
ReadPopped(stk) ==
  IF stk = <<>> THEN stats
  ELSE [stats EXCEPT !.pops = @ + 1, !.popped = @ \cup {Top(stk).current_child}]

\* A call of next() on the live read iterator.
NextRead ==
  /\ mode = "read"
  /\ LET r == IterWithIndexNext(stacks)
     IN /\ stacks' = r.stacks
        /\ IF r.panic # ""
           THEN /\ mode' = "panic"
                /\ panic' = r.panic
                /\ UNCHANGED <<out, ret>>
           ELSE /\ out' = IF r.some THEN Append(out, r.item) ELSE out
                /\ ret' = IF r.some THEN "Some" ELSE "None"
                /\ UNCHANGED <<mode, panic>>
  /\ stats' = ReadPopped(stacks)
  /\ UNCHANGED <<root, root_children, arena, start, predicate, live, rejected, written, other, prev>>

\* The iterator goes out of scope, its borrow of the graph ends.
DropIter ==
  /\ mode \in {"read", "mut"}
  /\ mode' = "idle"
  /\ start' = Root
  /\ predicate' = "true"
  /\ stacks' = <<>>
  /\ out' = <<>>
  /\ ret' = "NoCall"
  /\ live' = <<>>
  /\ rejected' = {}
  /\ written' = FALSE
  /\ stats' = NoStats
  /\ UNCHANGED <<root, root_children, arena, panic, other, prev>>

----------------------------------------------------------------------------
(* SceneGraphIterMutPredicate: the mutable predicate iterator.              *)

\* StackState::new(parent, first_child) of iter_mut_predicate.rs
MutStackState(parent, first_child) == [parent |-> parent, current_child |-> first_child]

\* SceneGraphIterMutPredicate::new: the stack it builds for root_node_idx.
IterMutPredicateNew(root_node_idx) ==
  LET first_child ==
        IF root_node_idx.tag = "Root"
        THEN root_children
        ELSE IF Resolves(root_node_idx.idx) THEN arena[root_node_idx.idx].children ELSE NoChildren
  IN IF first_child.some
     THEN <<MutStackState(root_node_idx, first_child.first)>>
     ELSE <<>>

\* SceneGraph::iter_mut_predicate(predicate): the traversal starts at the root.
IterMutPredicate(p) ==
  /\ mode = "idle"
  /\ mode' = "mut"
  /\ start' = Root
  /\ predicate' = p
  /\ stacks' = IterMutPredicateNew(Root)
  /\ ret' = "Ok"
  /\ UNCHANGED <<root, root_children, arena, out, live, rejected, written, panic, stats, other, prev>>

\* arena.get2_mut(a, b) panics when both indices are the same slot.
Get2MutPanics(a, b) == a = b

\* The value a NodeIndex refers to.
ValueOf(id) == IF id.tag = "Root" THEN root ELSE arena[id.idx].value

\* MutPushSibling pushing the sibling link without looking whether there is one.
MutPushSibling_Unchecked(stk, stack_frame, current_child) ==
  Push(stk, MutStackState(stack_frame.parent, current_child.next_sibling))

\* The sibling push of next (lines 59-61): the sibling keeps the frame's parent.
MutPushSibling(stk, stack_frame, current_child) ==
  IF current_child.next_sibling # NoSlot
  THEN Push(stk, MutStackState(stack_frame.parent, current_child.next_sibling))
  ELSE stk

\* MutPushFirstChild descending into the tail of the child list.
MutPushFirstChild_Last(stk, stack_frame, current_child) ==
  IF current_child.children.some
  THEN Push(stk, MutStackState(Branch(stack_frame.current_child), current_child.children.last))
  ELSE stk

\* MutPushFirstChild handing the frame's parent down to the child frame.
MutPushFirstChild_KeepsParent(stk, stack_frame, current_child) ==
  IF current_child.children.some
  THEN Push(stk, MutStackState(stack_frame.parent, current_child.children.first))
  ELSE stk

\* MutPushFirstChild keying the child frame by the child itself, as the frames
\* of the read iterator are.
MutPushFirstChild_SelfParent(stk, stack_frame, current_child) ==
  IF current_child.children.some
  THEN Push(stk, MutStackState(Branch(current_child.children.first), current_child.children.first))
  ELSE stk

\* The first-child push of next (lines 75-80): the candidate becomes the parent.
MutPushFirstChild(stk, stack_frame, current_child) ==
  IF current_child.children.some
  THEN Push(stk, MutStackState(Branch(stack_frame.current_child), current_child.children.first))
  ELSE stk

\* The pair next returns: the two places its mutable references point to
\* (the parent's value and the candidate's value).
Pair(stack_frame) == [parent |-> stack_frame.parent, child |-> Branch(stack_frame.current_child)]

\* RootRejected without the test of the root.
RootRejected_Never(stack_frame) == FALSE

\* RootRejected testing the frame's parent whatever it is, so that a branch
\* parent is evaluated again each time one of its children is popped.
RootRejected_AnyParent(stack_frame) == ~Pred(predicate, ValueOf(stack_frame.parent))

\* The Root arm of next (lines 42-47): the frame hangs below the root and the
\* root's value fails the predicate.
RootRejected(stack_frame) == stack_frame.parent.tag = "Root" /\ ~Pred(predicate, root)

\* The panicking lookups of next: get2_mut on one slot twice (line 52), unwrap
\* of a lookup that found nothing (lines 48, 54). "" when none panics.
LookupPanic(stack_frame) ==
  IF stack_frame.parent.tag = "Branch" /\ Get2MutPanics(stack_frame.parent.idx, stack_frame.current_child)
  THEN "get2_mut"
  ELSE IF \/ ~Resolves(stack_frame.current_child)
          \/ stack_frame.parent.tag = "Branch" /\ ~Resolves(stack_frame.parent.idx)
  THEN "unwrap"
  ELSE ""

\* What one call of next hands back: the item if there is one, the stack it
\* leaves, and for the history the slots it popped and its predicate calls.
MutResult(some, stk, item, rej, pnc) ==
  [some |-> some, stacks |-> stk, item |-> item, rejected |-> rej, panic |-> pnc,
   pops |-> <<>>, rootEvals |-> 0, evals |-> 0, skipped |-> 0]

\* 1 when the frame takes the Root arm, where the root's value is tested.
RootArm(stack_frame) == IF stack_frame.parent.tag = "Root" THEN 1 ELSE 0

\* The result r of the rest of the loop, with one more popped frame on record:
\* ev calls of the predicate on a candidate, sk frames dropped by the Root arm.
Counted(r, stack_frame, ev, sk) ==
  [r EXCEPT !.pops = <<stack_frame.current_child>> \o @,
            !.rootEvals = @ + RootArm(stack_frame),
            !.evals = @ + ev,
            !.skipped = @ + sk]

\* IterMutPredicateNext pushing the sibling only after the candidate passed
\* the predicate.
RECURSIVE IterMutPredicateNext_SiblingAfterTest(_, _)
IterMutPredicateNext_SiblingAfterTest(stk, rej) ==
  IF stk = <<>>
  THEN MutResult(FALSE, stk, <<>>, rej, "")
  ELSE LET stack_frame == Top(stk)
           popped == Pop(stk)
           current_child == arena[stack_frame.current_child]
           pushed == MutPushSibling(popped, stack_frame, current_child)
       IN IF RootRejected(stack_frame)
          THEN Counted(IterMutPredicateNext_SiblingAfterTest(popped, rej), stack_frame, 0, 1)
          ELSE IF ~Pred(predicate, current_child.value)
          THEN Counted(IterMutPredicateNext_SiblingAfterTest(popped, rej \cup {stack_frame.current_child}),
                       stack_frame, 1, 0)
          ELSE Counted(MutResult(TRUE, MutPushFirstChild(pushed, stack_frame, current_child),
                                 Pair(stack_frame), rej, ""),
                       stack_frame, 1, 0)

\* IterMutPredicateNext descending into the children of a candidate the
\* predicate turned down: only the candidate itself is left out.
RECURSIVE IterMutPredicateNext_DescendsRejected(_, _)
IterMutPredicateNext_DescendsRejected(stk, rej) ==
  IF stk = <<>>
  THEN MutResult(FALSE, stk, <<>>, rej, "")
  ELSE LET stack_frame == Top(stk)
           popped == Pop(stk)
           current_child == arena[stack_frame.current_child]
           pushed == MutPushSibling(popped, stack_frame, current_child)
       IN IF RootRejected(stack_frame)
          THEN Counted(IterMutPredicateNext_DescendsRejected(popped, rej), stack_frame, 0, 1)
          ELSE IF ~Pred(predicate, current_child.value)
          THEN Counted(IterMutPredicateNext_DescendsRejected(MutPushFirstChild(pushed, stack_frame, current_child),
                                                             rej \cup {stack_frame.current_child}),
                       stack_frame, 1, 0)
          ELSE Counted(MutResult(TRUE, MutPushFirstChild(pushed, stack_frame, current_child),
                                 Pair(stack_frame), rej, ""),
                       stack_frame, 1, 0)

\* IterMutPredicateNext testing the root's value ahead of the loop, whether or
\* not a frame is waiting.
RECURSIVE IterMutPredicateNext_RootTestedFirst(_, _)
IterMutPredicateNext_RootTestedFirst(stk, rej) ==
  IF ~Pred(predicate, root) \/ stk = <<>>
  THEN [MutResult(FALSE, <<>>, <<>>, rej, "") EXCEPT !.rootEvals = 1]
  ELSE LET stack_frame == Top(stk)
           popped == Pop(stk)
           current_child == arena[stack_frame.current_child]
           pushed == MutPushSibling(popped, stack_frame, current_child)
       IN IF ~Pred(predicate, current_child.value)
          THEN Counted(IterMutPredicateNext_RootTestedFirst(pushed, rej \cup {stack_frame.current_child}),
                       stack_frame, 1, 0)
          ELSE Counted(MutResult(TRUE, MutPushFirstChild(pushed, stack_frame, current_child),
                                 Pair(stack_frame), rej, ""),
                       stack_frame, 1, 0)

\* <SceneGraphIterMutPredicate as Iterator>::next: the while loop over the
\* stack stk; rej collects the candidates the predicate turned down.
RECURSIVE IterMutPredicateNext(_, _)
IterMutPredicateNext(stk, rej) ==
  IF stk = <<>>
  THEN MutResult(FALSE, stk, <<>>, rej, "")
  ELSE LET stack_frame == Top(stk)
           popped == Pop(stk)
           current_child == arena[stack_frame.current_child]
           pushed == MutPushSibling(popped, stack_frame, current_child)
       IN IF RootRejected(stack_frame)
          THEN Counted(IterMutPredicateNext(popped, rej), stack_frame, 0, 1)
          ELSE IF LookupPanic(stack_frame) # ""
          THEN Counted(MutResult(FALSE, popped, <<>>, rej, LookupPanic(stack_frame)), stack_frame, 0, 0)
          ELSE IF ~Pred(predicate, current_child.value)
          THEN Counted(IterMutPredicateNext(pushed, rej \cup {stack_frame.current_child}), stack_frame, 1, 0)
          ELSE Counted(MutResult(TRUE, MutPushFirstChild(pushed, stack_frame, current_child),
                                 Pair(stack_frame), rej, ""),
                       stack_frame, 1, 0)

\* The history after a call of next with result r.
MutPopped(r) ==
  [popped |-> stats.popped \cup {r.pops[i] : i \in 1..Len(r.pops)},
   pops |-> stats.pops + Len(r.pops),
   rootEvals |-> stats.rootEvals + r.rootEvals,
   evals |-> stats.evals + r.evals,
   skipped |-> stats.skipped + r.skipped]

\* NextMut taking the candidate's child range out of the node (Option::take)
\* where next only copies it.
NextMut_TakesChildren ==
  /\ mode = "mut"
  /\ LET r == IterMutPredicateNext(stacks, rejected)
     IN /\ stacks' = r.stacks
        /\ rejected' = r.rejected
        /\ out' = IF r.some THEN Append(out, r.item) ELSE out
        /\ live' = IF r.some THEN Append(live, r.item) ELSE live
        /\ ret' = IF r.some THEN "Some" ELSE "None"
        /\ arena' = IF r.some THEN [arena EXCEPT ![r.item.child.idx].children = NoChildren] ELSE arena
  /\ stats' = MutPopped(IterMutPredicateNext(stacks, rejected))
  /\ UNCHANGED <<root, root_children, mode, panic, start, predicate, written, other, prev>>

\* A call of next() on the live mutable iterator. The item type is
\* (&'a mut T, &'a mut T) with 'a the iterator's borrow of the graph, so the
\* pairs returned earlier may still be held by the caller when the next one
\* is returned.
NextMut ==
  /\ mode = "mut"
  /\ LET r == IterMutPredicateNext(stacks, rejected)
     IN /\ stacks' = r.stacks
        /\ rejected' = r.rejected
        /\ IF r.panic # ""
           THEN /\ mode' = "panic"
                /\ panic' = r.panic
                /\ UNCHANGED <<out, ret, live>>
           ELSE /\ out' = IF r.some THEN Append(out, r.item) ELSE out
                /\ live' = IF r.some THEN Append(live, r.item) ELSE live
                /\ ret' = IF r.some THEN "Some" ELSE "None"
                /\ UNCHANGED <<mode, panic>>
  /\ stats' = MutPopped(IterMutPredicateNext(stacks, rejected))
  /\ UNCHANGED <<root, root_children, arena, start, predicate, written, other, prev>>

\* The caller lets go of the pairs it holds.
ReleasePairs ==
  /\ mode = "mut"
  /\ live # <<>>
  /\ live' = <<>>
  /\ UNCHANGED <<root, root_children, arena, mode, start, predicate, stacks, out, ret, rejected, written, panic,
                 stats, other, prev>>

\* The places the caller can write to: the targets of the references it holds.
LiveTargets == {live[i].parent : i \in 1..Len(live)} \cup {live[i].child : i \in 1..Len(live)}

\* The caller writes the condition of a value through a reference it holds.
\* When two of the held references alias one value the write is undefined
\* behaviour in Rust; either condition is a possible outcome, and both are
\* among the writes chosen here.
CallerWrite(id, c) ==
  /\ mode = "mut"
  /\ id \in LiveTargets
  /\ ValueOf(id).cond # c
  /\ IF id.tag = "Root"
     THEN /\ root' = [root EXCEPT !.cond = c]
          /\ UNCHANGED arena
     ELSE /\ arena' = [arena EXCEPT ![id.idx].value.cond = c]
          /\ UNCHANGED root
  /\ written' = TRUE
  /\ UNCHANGED <<root_children, mode, start, predicate, stacks, out, ret, live, rejected, panic, stats, other, prev>>

----------------------------------------------------------------------------
(* Two iterators over one graph. Read iterators only borrow the graph        *)
(* shared, so a second one can be built and advanced while the first is      *)
(* alive; a mutable iterator is alone, a second one follows the first.       *)

\* SceneGraph::iter_from_node_with_index(node_index) for a second read
\* iterator, while the first one is alive.
IterFromOther(node_index) ==
  /\ mode = "read"
  /\ ~other.active
  /\ IF node_index.tag = "Branch" /\ ~Resolves(node_index.idx)
     THEN /\ other' = [NoOther EXCEPT !.start = node_index, !.ret = "NodeNotFound"]
          /\ UNCHANGED <<mode, panic>>
     ELSE IF IterWithIndexNewPanics(ChildrenOf(node_index))
     THEN /\ mode' = "panic"
          /\ panic' = "index"
          /\ UNCHANGED other
     ELSE /\ other' = [active |-> TRUE, start |-> node_index,
                       stacks |-> IterWithIndexNew(ChildrenOf(node_index)),
                       out |-> <<>>, ret |-> "Ok"]
          /\ UNCHANGED <<mode, panic>>
  /\ UNCHANGED <<root, root_children, arena, start, predicate, stacks, out, ret, live, rejected, written, stats, prev>>

\* A call of next() on the second read iterator.
NextReadOther ==
  /\ mode = "read"
  /\ other.active
  /\ LET r == IterWithIndexNext(other.stacks)
     IN IF r.panic # ""
        THEN /\ mode' = "panic"
             /\ panic' = r.panic
             /\ other' = [other EXCEPT !.stacks = r.stacks]
        ELSE /\ other' = [other EXCEPT !.stacks = r.stacks,
                                       !.out = IF r.some THEN Append(@, r.item) ELSE @,
                                       !.ret = IF r.some THEN "Some" ELSE "None"]
             /\ UNCHANGED <<mode, panic>>
  /\ UNCHANGED <<root, root_children, arena, start, predicate, stacks, out, ret, live, rejected, written, stats, prev>>

\* The iterators go out of scope; what a mutable traversal that ran to its
\* end returned is kept on record.
DropRecorded ==
  /\ mode \in {"read", "mut"}
  /\ mode' = "idle"
  /\ start' = Root
  /\ predicate' = "true"
  /\ stacks' = <<>>
  /\ out' = <<>>
  /\ ret' = "NoCall"
  /\ live' = <<>>
  /\ rejected' = {}
  /\ written' = FALSE
  /\ stats' = NoStats
  /\ other' = NoOther
  /\ prev' = IF mode = "mut" /\ ret = "None" /\ ~written
             THEN [kind |-> "mut", predicate |-> predicate, out |-> out]
             ELSE prev
  /\ UNCHANGED <<root, root_children, arena, panic>>

----------------------------------------------------------------------------
Next ==
  \/ \E parent \in NodeIds, c \in BOOLEAN : Attach(parent, c)
  \/ \E node_index \in NodeIds : IterFromNodeWithIndex(node_index)
  \/ NextRead
  \/ \E p \in Predicates : IterMutPredicate(p)
  \/ NextMut
  \/ ReleasePairs
  \/ \E id \in NodeIds, c \in BOOLEAN : CallerWrite(id, c)
  \/ DropIter

Spec == Init /\ [][Next]_vars

\* The steps of a graph nobody writes to, with up to two read iterators at a
\* time and one mutable traversal after the other.
NextTwo ==
  \/ \E parent \in NodeIds, c \in BOOLEAN : Attach(parent, c)
  \/ \E node_index \in NodeIds : IterFromNodeWithIndex(node_index)
  \/ NextRead
  \/ \E node_index \in NodeIds : IterFromOther(node_index)
  \/ NextReadOther
  \/ \E p \in Predicates : IterMutPredicate(p)
  \/ NextMut
  \/ DropRecorded

SpecTwo == Init /\ [][NextTwo]_vars

TypeOK ==
  /\ mode \in {"idle", "read", "mut", "panic"}
  /\ ret \in {"NoCall", "Ok", "Some", "None", "NodeNotFound"}
  /\ start \in NodeIds
  /\ predicate \in Predicates
  /\ rejected \subseteq Slots

----------------------------------------------------------------------------
(* Properties of the read iterator.                                         *)

\* The slots of the items the read iterator has returned.
ReadSlots == [i \in 1..Len(out) |-> out[i].idx.idx]

NoDuplicates(seq) == \A i, j \in 1..Len(seq) : seq[i] = seq[j] => i = j

\* C1: the read iterator started at Root returns the branch nodes in
\* depth-first preorder (siblings in chain order, the descendants of a node
\* right after it and before its next sibling), each with its identifier and
\* value, and when it is exhausted it has returned every branch node of the
\* tree exactly once.
C1_ReadPreorderFromRoot ==
  (mode = "read" /\ start = Root) =>
    LET pre == Preorder(Root)
    IN /\ Len(out) <= Len(pre)
       /\ \A i \in 1..Len(out) : /\ out[i].idx = Branch(pre[i])
                                 /\ out[i].value = arena[pre[i]].value
       /\ NoDuplicates(ReadSlots)
       /\ ret = "None" => /\ Len(out) = Cardinality(Occupied)
                          /\ Range(ReadSlots) = Occupied

\* A finished traversal from Root of a tree in which a node has both a child
\* and a next sibling.
C1_Witness ==
  /\ mode = "read" /\ start = Root /\ ret = "None"
  /\ Len(out) = 3
  /\ \E s \in Occupied : arena[s].children.some /\ arena[s].next_sibling # NoSlot

\* C2: the read iterator built from the children of a start node S returns
\* only proper descendants of S, never one twice, each paired with its own
\* Branch identifier and value; it never returns S, a sibling of S, a node
\* below a sibling of S or an ancestor of S, and when it is exhausted it has
\* returned every proper descendant of S.
C2_ReadYieldsProperDescendants ==
  mode = "read" =>
    /\ \A i \in 1..Len(out) :
         /\ out[i].idx.tag = "Branch"
         /\ out[i].idx.idx \in Descendants(start)
         /\ out[i].value = arena[out[i].idx.idx].value
         /\ out[i].idx # start
         /\ start.tag = "Branch" =>
              /\ ~IsAncestor(out[i].idx, start.idx, MaxNodes + 1)
              /\ \A sib \in Range(Kids(ParentOf(start.idx))) \ {start.idx} :
                   /\ out[i].idx.idx # sib
                   /\ out[i].idx.idx \notin Descendants(Branch(sib))
    /\ NoDuplicates(ReadSlots)
    /\ ret = "None" => Range(ReadSlots) = Descendants(start)

\* A finished traversal from a branch node that has a sibling and children.
C2_Witness ==
  /\ mode = "read" /\ start.tag = "Branch" /\ ret = "None"
  /\ Len(out) >= 1
  /\ Len(Kids(ParentOf(start.idx))) >= 2

----------------------------------------------------------------------------
(* Properties of the mutable predicate iterator.                            *)

\* The places one returned pair refers to.
Targets(pair) == {pair.parent, pair.child}

\* C3: no node, root or branch, is the target of two mutable references the
\* caller holds at the same time, however long it keeps the returned pairs.
C3_NoTwoLiveViews ==
  /\ \A i \in 1..Len(live) : live[i].parent # live[i].child
  /\ \A i, j \in 1..Len(live) : i < j => Targets(live[i]) \cap Targets(live[j]) = {}

\* The read iterator run to exhaustion from the children of id.
RECURSIVE ReadRun(_, _)
ReadRun(stk, fuel) ==
  LET r == IterWithIndexNext(stk)
  IN IF ~r.some \/ fuel = 0 THEN <<>> ELSE <<r.item>> \o ReadRun(r.stacks, fuel - 1)

ReadAll(id) == ReadRun(IterWithIndexNew(ChildrenOf(id)), MaxNodes + 1)

\* C4: under the predicate that holds of every value, the children returned
\* by the mutable iterator are, item by item, the nodes and values the read
\* iterator returns from Root on the same tree, and as many of them.
C4_MutMatchesReadWhenAllAdmitted ==
  (mode = "mut" /\ predicate = "true") =>
    LET r == ReadAll(Root)
    IN /\ Len(out) <= Len(r)
       /\ \A i \in 1..Len(out) : /\ out[i].child = r[i].idx
                                 /\ ValueOf(out[i].child) = r[i].value
       /\ ret = "None" => Len(out) = Len(r)

\* A finished traversal under the always-true predicate of a tree where a
\* child of the root has a child and a next sibling.
C4_Witness ==
  /\ mode = "mut" /\ predicate = "true" /\ ret = "None"
  /\ Len(out) = 3
  /\ \E s \in Range(Kids(Root)) : arena[s].children.some /\ arena[s].next_sibling # NoSlot

\* What C5 asks of one step of a live mutable iterator.
C5_Step ==
  (mode = "mut" /\ mode' = "mut" /\ out = <<>> /\ ~Pred(predicate, root)) =>
    /\ out' = <<>>
    /\ ret' = "None"
    /\ stacks' = <<>>
    /\ ~Pred(predicate', root')

\* C5: while the root's value fails the predicate and nothing has been
\* returned, a call of next returns end-of-sequence, leaves the stack empty
\* and returns no pair, whatever the shape of the tree.
C5_RootRejectedYieldsNothing == [][C5_Step]_vars

\* next was called on a tree with two root children, one of them with a child
\* that passes the predicate, while the root fails it.
C5_Witness ==
  /\ mode = "mut" /\ predicate = "condition" /\ ~root.cond
  /\ ret = "None" /\ out = <<>>
  /\ Len(Kids(Root)) >= 2
  /\ \E s \in Range(Kids(Root)) : arena[s].value.cond /\ arena[s].children.some

\* The slots of the children the mutable iterator has returned.
MutSlots == {out[i].child.idx : i \in 1..Len(out)}

\* The siblings that follow slot n in its chain.
FollowingSiblings(n) == Range(Chain(arena[n].next_sibling, MaxNodes + 1))

\* x lies in the subtree of m and the predicate holds from x up to m.
RECURSIVE AdmittedUpTo(_, _, _)
AdmittedUpTo(x, m, fuel) ==
  /\ fuel > 0
  /\ Pred(predicate, arena[x].value)
  /\ \/ x = m
     \/ /\ ParentOf(x).tag = "Branch"
        /\ x \in Descendants(Branch(m))
        /\ AdmittedUpTo(ParentOf(x).idx, m, fuel - 1)

AdmittedSubtree(m) == {x \in Occupied : AdmittedUpTo(x, m, MaxNodes + 1)}

\* C6: a branch node the predicate rejected is never returned and neither is
\* any of its descendants; its later siblings are still considered: when the
\* traversal ends (the values untouched by the caller), each of them that
\* passes the predicate was returned together with its admitted subtree, and
\* each that fails it was rejected in its own right.
C6_RejectedSubtreePrunedSiblingsKept ==
  mode = "mut" =>
    \A n \in rejected :
      /\ n \notin MutSlots
      /\ Descendants(Branch(n)) \cap MutSlots = {}
      /\ (ret = "None" /\ ~written) =>
           \A m \in FollowingSiblings(n) :
             IF Pred(predicate, arena[m].value)
             THEN AdmittedSubtree(m) \subseteq MutSlots
             ELSE m \in rejected

\* A finished traversal in which a rejected node has a child that passes the
\* predicate and a later sibling that was returned.
C6_Witness ==
  /\ mode = "mut" /\ ret = "None" /\ ~written
  /\ \E n \in rejected :
       /\ \E x \in Descendants(Branch(n)) : Pred(predicate, arena[x].value)
       /\ FollowingSiblings(n) \cap MutSlots # {}

\* C7: in every returned pair the child is a branch node and the parent is
\* the node whose child chain holds it (Root for a child of the root), which
\* is never the child itself.
C7_PairIsParentAndChild ==
  mode = "mut" =>
    \A i \in 1..Len(out) :
      /\ out[i].child.tag = "Branch"
      /\ Resolves(out[i].child.idx)
      /\ out[i].parent = ParentOf(out[i].child.idx)
      /\ out[i].parent # out[i].child

\* Pairs were returned for a child of the root that has a sibling, and for a
\* grandchild.
C7_Witness ==
  /\ mode = "mut"
  /\ \E i, j \in 1..Len(out) : /\ out[i].parent = Root
                               /\ arena[out[i].child.idx].next_sibling # NoSlot
                               /\ out[j].parent = out[i].child

\* C8: get2_mut is never handed the same slot twice: every frame with a
\* branch parent names a candidate other than that parent, and the panic of
\* get2_mut does not occur.
C8_Get2MutIndicesDiffer ==
  /\ panic # "get2_mut"
  /\ \A i \in 1..Len(stacks) :
       (mode = "mut" /\ stacks[i].parent.tag = "Branch") => stacks[i].parent.idx # stacks[i].current_child

\* get2_mut was used for a returned pair, and a frame with a branch parent is
\* waiting on the stack.
C8_Witness ==
  /\ mode = "mut"
  /\ \E i \in 1..Len(out) : out[i].parent.tag = "Branch"
  /\ \E i \in 1..Len(stacks) : stacks[i].parent.tag = "Branch"

----------------------------------------------------------------------------
(* Errors and frame conditions.                                             *)

\* What C9 asks of one step: a step out of the idle state that answers a
\* request for a read traversal.
C9_Step ==
  (mode = "idle" /\ ret' \in {"Ok", "NodeNotFound"} /\ mode' # "mut") =>
    IF start'.tag = "Branch" /\ ~Resolves(start'.idx)
    THEN /\ ret' = "NodeNotFound"
         /\ mode' = "idle"
         /\ stacks' = <<>> /\ out' = <<>>
         /\ root' = root /\ root_children' = root_children /\ arena' = arena
    ELSE /\ ret' = "Ok"
         /\ mode' = "read"

\* C9: a read traversal requested for a Branch identifier that does not
\* resolve fails with NodeNotFound: no iterator exists afterwards, no frame
\* was pushed, no item returned and the graph is as before; requested for
\* Root (or a Branch that resolves) it succeeds.
C9_StaleStartFailsCleanly == [][C9_Step]_vars

\* The request failed on a graph that has branch nodes.
C9_Witness ==
  /\ ret = "NodeNotFound" /\ mode = "idle"
  /\ start.tag = "Branch" /\ ~Resolves(start.idx)
  /\ Occupied # {}

\* The links of the tree: which slots resolve, their child ranges and siblings.
Shape(a) == [s \in Slots |-> <<a[s].occupied, a[s].children, a[s].next_sibling>>]

\* The nodes whose value a step changes.
Changed == {id \in NodeIds : ValueOf(id)' # ValueOf(id)}

\* What C10 asks of one step.
C10_Step ==
  mode \in {"read", "mut"} =>
    /\ Shape(arena') = Shape(arena)
    /\ root_children' = root_children
    /\ mode = "read" => (root' = root /\ arena' = arena)
    /\ Changed # {} => /\ Changed \subseteq LiveTargets
                       /\ written'
                       /\ stacks' = stacks /\ out' = out /\ ret' = ret

\* C10: while an iterator is alive no step changes the slots of the arena,
\* a child range, a sibling link or the root's child range; a read iterator
\* changes no value either, and under a mutable iterator a value changes only
\* by a write of the caller through a reference it holds, a step that leaves
\* the iterator as it is.
C10_IteratorsLeaveTreeAlone == [][C10_Step]_vars

\* A mutable traversal has returned a node that has children, and has ended.
C10_Witness ==
  /\ mode = "mut" /\ ret = "None"
  /\ \E i \in 1..Len(out) : arena[out[i].child.idx].children.some

----------------------------------------------------------------------------
(* Properties of repeated and simultaneous traversals.                      *)

\* seq is the start of the preorder below id, in identifiers and values.
IsPreorderPrefix(seq, id) ==
  LET pre == Preorder(id)
  IN /\ Len(seq) <= Len(pre)
     /\ \A i \in 1..Len(seq) : seq[i] = [idx |-> Branch(pre[i]), value |-> arena[pre[i]].value]

\* One sequence is the start of the other.
Compatible(s1, s2) == \A i \in 1..Len(s1) : i <= Len(s2) => s1[i] = s2[i]

\* C11: two iterators built on the same unchanged tree return the same
\* sequence. Two read iterators alive together return, however their calls
\* interleave, what each returns alone (the preorder below its start node):
\* from the same start node they agree item by item and, both exhausted, in
\* full. A mutable traversal returns what the finished traversal before it
\* returned under the same predicate.
C11_IndependentIteratorsAgree ==
  /\ (mode = "read" /\ other.active) =>
       /\ IsPreorderPrefix(out, start)
       /\ IsPreorderPrefix(other.out, other.start)
       /\ start = other.start =>
            /\ Compatible(out, other.out)
            /\ (ret = "None" /\ other.ret = "None") => out = other.out
  /\ (mode = "mut" /\ prev.kind = "mut" /\ prev.predicate = predicate) =>
       /\ Compatible(out, prev.out)
       /\ Len(out) <= Len(prev.out)
       /\ ret = "None" => out = prev.out

\* Two read iterators from Root, advanced in turns, both exhausted after
\* returning three nodes, the first one built after a mutable traversal.
C11_Witness ==
  /\ mode = "read" /\ other.active
  /\ start = Root /\ other.start = Root
  /\ ret = "None" /\ other.ret = "None"
  /\ Len(out) = 3
  /\ prev.kind = "mut"

\* A second mutable traversal has ended, after a first one that returned a
\* node with children.
C11_WitnessMut ==
  /\ mode = "mut" /\ prev.kind = "mut" /\ prev.predicate = predicate
  /\ ret = "None"
  /\ \E i \in 1..Len(out) : arena[out[i].child.idx].children.some

----------------------------------------------------------------------------
(* Termination and the shape of one call.                                   *)

\* A step that is a call of next() on a stack that holds a frame: the only
\* steps that keep the iterator and change its stack.
CallOnFrames == mode \in {"read", "mut"} /\ mode' = mode /\ stacks # <<>> /\ stacks' # stacks

\* What C12 asks of every state: the bounds on items and popped frames.
C12_Bounds ==
  /\ mode = "read" =>
       /\ stats.pops = Len(out)
       /\ Len(out) <= Cardinality(Descendants(start))
       /\ stacks = <<>> <=> Len(out) = Cardinality(Descendants(start))
       /\ ret = "None" => stacks = <<>>
  /\ mode = "mut" =>
       /\ stats.pops <= Cardinality(Occupied)
       /\ stats.pops = Cardinality(stats.popped)
       /\ stats.popped \subseteq Occupied
       /\ ret = "None" => stacks = <<>>

\* What C12 asks of one step: the bounds hold after it, and a call on a stack
\* that holds a frame pops at least one.
C12_Step ==
  /\ C12_Bounds'
  /\ CallOnFrames => stats'.pops > stats.pops

\* C12: traversals end. The read iterator started at S returns as many items
\* as S has proper descendants, its stack running empty exactly with the last
\* of them, and then end-of-sequence. Every call of next on the mutable
\* iterator pops at least one frame when there is one and no slot is popped
\* twice, so a call runs through at most as many loop iterations as there are
\* branch nodes not popped before, and a whole traversal pops at most one
\* frame per branch node.
C12_TraversalsTerminate == [][C12_Step]_vars

\* A mutable traversal has ended after popping three frames, one of them
\* rejected, one returned.
C12_Witness ==
  /\ mode = "mut" /\ ret = "None"
  /\ stats.pops = 3
  /\ rejected # {} /\ out # <<>>


\* C13: an iterator over nothing returns nothing. A read iterator started at a
\* node without children (the root of an empty graph, or a leaf) and a mutable
\* iterator over a root without children have an empty stack from the start,
\* never return an item, answer the first and every call of next with
\* end-of-sequence, pop nothing and never call the predicate.
C13_EmptyStartYieldsNothing ==
  (mode \in {"read", "mut"} /\ ~ChildrenOf(start).some) =>
    /\ stacks = <<>>
    /\ out = <<>>
    /\ ret \in {"Ok", "None"}
    /\ stats = NoStats

\* next was called on a mutable iterator over a root without children, under
\* a predicate the root's value fails.
C13_Witness ==
  /\ mode = "mut" /\ ret = "None"
  /\ ~root_children.some
  /\ predicate = "condition" /\ ~root.cond

\* next was called on a read iterator started at a leaf of a graph with
\* other nodes.
C13_WitnessLeaf ==
  /\ mode = "read" /\ ret = "None"
  /\ start.tag = "Branch" /\ ~ChildrenOf(start).some
  /\ Cardinality(Occupied) >= 2

----------------------------------------------------------------------------
(* When the predicate is called, and on what.                               *)

\* The root was admitted: a pair with the root as parent was returned.
RootAdmitted == \E i \in 1..Len(out) : out[i].parent = Root

\* C14: the mutable iterator tests the root's value not when it is built but
\* when the first frame below the root is popped, and only then: once the
\* root is admitted every child of the root is considered on its own value
\* (returned or rejected), whatever the caller writes to the root afterwards.
C14_RootEvaluatedOnce ==
  mode = "mut" =>
    /\ ret = "Ok" => stats.rootEvals = 0
    /\ stats.rootEvals <= 1
    /\ (ret = "None" /\ RootAdmitted) => Range(Kids(Root)) \subseteq MutSlots \cup rejected

\* The part of C14 a caller can observe: once the root is admitted, every
\* child of the root is returned or rejected on its own value.
C14_RootChildrenAllConsidered ==
  (mode = "mut" /\ ret = "None" /\ RootAdmitted) => Range(Kids(Root)) \subseteq MutSlots \cup rejected

\* What the code does: the root's value is tested every time a frame below the
\* root is popped, never at construction.
C14_RootEvaluatedPerFrame ==
  mode = "mut" =>
    /\ ret = "Ok" => stats.rootEvals = 0
    /\ stats.rootEvals = Cardinality(stats.popped \cap Range(Kids(Root)))


\* The predicate holds of slot x and of every node above it, the root included.
RECURSIVE PathAdmitted(_, _)
PathAdmitted(x, fuel) ==
  /\ fuel > 0
  /\ Pred(predicate, arena[x].value)
  /\ IF ParentOf(x).tag = "Root"
     THEN Pred(predicate, root)
     ELSE PathAdmitted(ParentOf(x).idx, fuel - 1)

IsAdmittedItem(item) == PathAdmitted(item.idx.idx, MaxNodes + 1)

\* The items of the read iterator's traversal from Root whose whole path is admitted.
AdmittedRead == SelectSeq(ReadAll(Root), IsAdmittedItem)

\* C15: as long as the caller has written no value, the children returned by
\* the mutable iterator are, in order, the nodes of the read iterator's
\* traversal from Root for which the predicate holds on the node and on each
\* of its ancestors up to the root; at the end of the traversal all of them
\* have been returned.
C15_MutIsAdmittedSubsequence ==
  (mode = "mut" /\ ~written) =>
    /\ Len(out) <= Len(AdmittedRead)
    /\ \A i \in 1..Len(out) : out[i].child = AdmittedRead[i].idx
    /\ ret = "None" => Len(out) = Len(AdmittedRead)

\* A traversal without writes has ended; it returned a node, rejected one, and
\* left out a node that passes the predicate below a node that does not.
C15_Witness ==
  /\ mode = "mut" /\ ~written /\ ret = "None"
  /\ out # <<>> /\ rejected # {}
  /\ \E x \in Occupied : Pred(predicate, arena[x].value) /\ ~PathAdmitted(x, MaxNodes + 1)

----------------------------------------------------------------------------
(* The shape of one call of next.                                           *)

\* The slots the frames of a stack name, bottom to top.
FrameSlots(stk) == [i \in 1..Len(stk) |-> stk[i].current_child]

\* The slots pushed when the node in slot x is expanded: its next sibling,
\* then its first child.
Expansion(x) ==
  (IF arena[x].next_sibling # NoSlot THEN <<arena[x].next_sibling>> ELSE <<>>)
    \o (IF arena[x].children.some THEN <<arena[x].children.first>> ELSE <<>>)

\* A step that is a call of next() answered with end-of-sequence.
CallReturnsNone == mode \in {"read", "mut"} /\ mode' = mode /\ ret' = "None" /\ (ret # "None" \/ stacks' # stacks)

\* The call pops the top frame only, expands it and returns its node.
PopsOneAndReturnsIt ==
  /\ stats'.pops = stats.pops + 1
  /\ ret' = "Some"
  /\ Len(out') = Len(out) + 1
  /\ FrameSlots(stacks') = FrameSlots(Pop(stacks)) \o Expansion(Top(stacks).current_child)

\* What C16 asks of one step, of either iterator.
C16_OneFrameStep ==
  /\ CallOnFrames => PopsOneAndReturnsIt
  /\ CallReturnsNone => stacks = <<>>

\* C16: each call of next on a stack that holds a frame pops exactly one
\* frame, expands it (at most the sibling frame, then at most the child frame)
\* and returns exactly one item; end-of-sequence is returned only when the
\* stack is empty at the start of the call.
C16_OneFramePerCall == [][C16_OneFrameStep]_vars

\* The frames a call of the mutable iterator popped without returning them
\* are those it rejected and those the Root arm dropped.
DroppedBy(n) ==
  n = (Cardinality(rejected') - Cardinality(rejected)) + (stats'.skipped - stats.skipped)

\* What the amended C16 asks of one step.
C16_AmendedStep ==
  /\ (mode = "read" /\ CallOnFrames) => PopsOneAndReturnsIt
  /\ (mode = "read" /\ CallReturnsNone) => stacks = <<>>
  /\ (mode = "mut" /\ CallOnFrames) =>
       /\ stats'.pops >= stats.pops + 1
       /\ ret' \in {"Some", "None"}
       /\ IF ret' = "Some"
          THEN /\ Len(out') = Len(out) + 1
               /\ DroppedBy(stats'.pops - stats.pops - 1)
               /\ LET x == out'[Len(out')].child.idx
                      n == Len(Expansion(x))
                  IN /\ Len(stacks') >= n
                     /\ SubSeq(FrameSlots(stacks'), Len(stacks') - n + 1, Len(stacks')) = Expansion(x)
          ELSE /\ out' = out
               /\ DroppedBy(stats'.pops - stats.pops)
  /\ (mode = "mut" /\ CallReturnsNone) => stacks' = <<>>

\* C16, amended: a call of next on the read iterator with a frame on the stack
\* pops exactly that frame, expands it and returns exactly one item, and
\* returns end-of-sequence only on an empty stack. A call on the mutable
\* iterator with a frame on the stack pops one or more frames: it drops the
\* frames whose candidate the predicate rejects and those below a rejected
\* root, stops at the first admitted candidate, expands it and returns it as
\* the one item of the call; it returns end-of-sequence when the stack has
\* run empty, be it at the start of the call or during it.
C16_OneItemPerCall == [][C16_AmendedStep]_vars

\* The first call of next on the mutable iterator popped two frames: it
\* rejected the first candidate and returned its sibling.
C16_Witness ==
  /\ mode = "mut" /\ ret = "Some"
  /\ Len(out) = 1
  /\ stats.pops = 2
  /\ Cardinality(rejected) = 1

----------------------------------------------------------------------------
(* Forward-only traversal.                                                  *)

\* The slots an iterator of either kind has returned so far, in order.
YieldedSlots ==
  [i \in 1..Len(out) |-> IF mode = "mut" THEN out[i].child.idx ELSE out[i].idx.idx]

\* The iterator that is live before a step is the one that is live after it.
SameIterator == mode \in {"read", "mut"} /\ mode' = mode /\ ret' \in {"Ok", "Some", "None"} /\ ret # "NoCall"

\* What C17 asks of one step and of the state it leads to.
C17_Step ==
  /\ (SameIterator /\ ret = "None") =>
       /\ ret' = "None"
       /\ stacks' = <<>>
       /\ out' = out
  /\ SameIterator =>
       /\ Len(out') >= Len(out)
       /\ SubSeq(out', 1, Len(out)) = out
  /\ (mode' \in {"read", "mut"} /\ ret' = "None") => stacks' = <<>>
  /\ mode' \in {"read", "mut"} => NoDuplicates(YieldedSlots)'

\* C17: an iterator only moves forward. Once it has returned end-of-sequence
\* its stack is empty and stays empty and every later call returns
\* end-of-sequence again; what it has returned is never taken back, and no
\* node is returned twice by one iterator.
C17_ForwardOnly == [][C17_Step]_vars

\* A traversal that returned several nodes has reported its end.
C17_Witness ==
  /\ mode \in {"read", "mut"}
  /\ ret = "None"
  /\ Len(out) >= 2
  /\ stacks = <<>>

----------------------------------------------------------------------------
(* The stack between two calls of next.                                     *)

\* The number of nodes above slot x, the root included.
Depth(x) == Cardinality({a \in NodeIds : IsAncestor(a, x, MaxNodes + 1)})

DepthOfNode(id) == IF id.tag = "Root" THEN 0 ELSE Depth(id.idx)

\* The height of the subtree below the node id: the longest downward path.
Height(id) ==
  LET below == {Depth(x) - DepthOfNode(id) : x \in Descendants(id)}
  IN IF below = {} THEN 0 ELSE CHOOSE h \in below : \A g \in below : g <= h

\* The slots the live iterator has taken off its stack and decided on.
Decided == Range(YieldedSlots) \cup rejected \cup stats.popped

\* C18: between two calls of next the frames of the stack name pairwise
\* distinct slots, none of them already returned or rejected; the depths in
\* the tree of these slots grow strictly from the bottom of the stack to its
\* top; the stack is never longer than the traversed subtree is high; and no
\* slot is pushed twice in one traversal (every pop takes a slot never popped
\* before, and no popped slot is on the stack).
C18_StackShape ==
  mode \in {"read", "mut"} =>
    /\ NoDuplicates(FrameSlots(stacks))
    /\ Range(FrameSlots(stacks)) \cap Decided = {}
    /\ \A i, j \in 1..Len(stacks) :
         i < j => Depth(stacks[i].current_child) < Depth(stacks[j].current_child)
    /\ Len(stacks) <= Height(start)
    /\ stats.pops = Cardinality(stats.popped)
    /\ Range(FrameSlots(stacks)) \subseteq Descendants(start)

\* The stack holds a sibling frame below a child frame, as many frames as the
\* subtree is high, after some node was returned.
C18_Witness ==
  /\ mode \in {"read", "mut"}
  /\ out # <<>>
  /\ Len(stacks) = 2
  /\ Len(stacks) = Height(start)

----------------------------------------------------------------------------
(* Lookups.                                                                 *)

\* Every slot the frame names resolves, and get2_mut gets two different slots.
FrameResolves(stack_frame) ==
  /\ Resolves(stack_frame.current_child)
  /\ mode = "mut" =>
       (stack_frame.parent.tag = "Branch" =>
          /\ Resolves(stack_frame.parent.idx)
          /\ ~Get2MutPanics(stack_frame.parent.idx, stack_frame.current_child))

\* C19: every slot a frame names resolves in the arena, when the frame is
\* pushed and still when it is popped, so none of the panicking lookups of
\* the iterators (indexing the arena, unwrapping get_mut and get2_mut) fails.
C19_LookupsNeverPanic ==
  /\ mode # "panic"
  /\ panic = ""
  /\ mode \in {"read", "mut"} =>
       /\ \A i \in 1..Len(stacks) : FrameResolves(stacks[i])
       /\ stats.popped \subseteq Occupied

\* The mutable iterator has popped frames and holds a frame whose parent is a
\* branch node, the case that goes through get2_mut.
C19_Witness ==
  /\ mode = "mut"
  /\ stats.popped # {}
  /\ \E i \in 1..Len(stacks) : stacks[i].parent.tag = "Branch"
  /\ ret = "Some"

----------------------------------------------------------------------------
(* Admission is per node.                                                   *)

\* The slots a step takes off the stack, turns down, and returns.
NewlyPopped == stats'.popped \ stats.popped

NewlyRejected == rejected' \ rejected

NewlyYielded == {out'[i].child.idx : i \in (Len(out) + 1)..Len(out')}

\* The slots the traversal has looked at and decided on by their own value.
Considered == MutSlots \cup rejected

\* What C20 asks of one step of the mutable iterator and of the state it
\* leads to.
C20_Step ==
  (mode = "mut" /\ mode' = "mut") =>
    /\ \A p \in NewlyYielded : Pred(predicate, arena[p].value)
    /\ \A p \in NewlyRejected : ~Pred(predicate, arena[p].value)
    /\ \A p \in NewlyPopped :
         ParentOf(p).tag = "Branch" =>
           /\ p \in NewlyYielded <=> Pred(predicate, arena[p].value)
           /\ p \in NewlyRejected <=> ~Pred(predicate, arena[p].value)
    /\ ret' = "None" =>
         (\A x \in MutSlots' :
            /\ Range(Kids(Branch(x))) \subseteq Considered'
            /\ (ParentOf(x).tag = "Branch" \/ stats'.skipped = 0) =>
                 FollowingSiblings(x) \subseteq Considered')

\* C20: the mutable iterator admits a branch node on the predicate's result
\* on that node's own value when its frame is popped, and on nothing else: a
\* candidate below a branch parent is returned exactly if it passes and
\* rejected exactly if it fails, whatever its parent's value has become. By
\* the end of the traversal every child and every later sibling of a returned
\* node has been popped and decided on by its own value, also when the caller
\* has written to the returned node so that it now fails the predicate. (Root
\* children dropped because the root fails the predicate are left aside.)
C20_AdmissionPerNode == [][C20_Step]_vars

\* A returned node fails the predicate after a caller's write; its child was
\* returned, and its later sibling was returned after the write: the only
\* reference the caller still holds is the one to that sibling.
C20_Witness ==
  /\ mode = "mut" /\ ret = "None" /\ written
  /\ Len(live) = 1
  /\ \E x \in MutSlots :
       /\ ~Pred(predicate, arena[x].value)
       /\ \E c \in Range(Kids(Branch(x))) : c \in MutSlots
       /\ \E sib \in FollowingSiblings(x) : sib \in MutSlots /\ live[1].child = Branch(sib)

====
